---- MODULE Spec2Model ----
(***************************************************************************)
(* A model of the Sound engine of src/index.js: the playback clock         *)
(* (play / pause / time), the section scheduler (before / after / between  *)
(* / onceAt), the Kick onset detector, the Beat metronome and the frame    *)
(* loop (onUpdate, requestAnimationFrame / cancelAnimationFrame).          *)
(*                                                                         *)
(* JavaScript runs every handler to completion, so each handler is one     *)
(* action.  A handler is computed by operators over an engine record `e`   *)
(* (the fields of the Sound object) and the wall-clock reading `t` of      *)
(* ctx.currentTime, which does not move while a handler runs.  User        *)
(* callbacks are modelled by what they do to the engine: "log" callbacks   *)
(* only get recorded in `log`, "pause" callbacks call sound.pause().       *)
(* Times are integers (one unit is one tick of the model's clock).         *)
(***************************************************************************)
EXTENDS Integers, Sequences, FiniteSets, TLC

VARIABLES
    now,                 \* ctx.currentTime, the wall clock of the audio context
    startTime,           \* this._startTime
    pauseTime,           \* this._pauseTime
    isPlaying,           \* this._isPlaying
    req,                 \* this.req, 0 while undefined
    pending,             \* the frame requests the host still holds
    sections,            \* this._sections
    kicks,               \* this._kicks
    beats,               \* this._beats
    analyserData,        \* what the analyser node currently measures
    frequencyDataArray,  \* this.frequencyDataArray, the spectrum snapshot
    isLoaded,            \* this._isLoaded
    log,                 \* the user callbacks invoked by the latest handler
    nesting,             \* the deepest nesting of onUpdate activations the
                         \* latest handler reached
    returned             \* what the latest getFrequency() call returned:
                         \* <<sum, n>> for the quotient sum / n, <<>> before

vars == <<now, startTime, pauseTime, isPlaying, req, pending, sections, kicks,
          beats, analyserData, frequencyDataArray, isLoaded, log, nesting, returned>>

(***************************************************************************)
(* Bounds of the exploration and the constructor's parameters.             *)
(***************************************************************************)
MaxNow == 7
MaxStep == 3
MaxElapsed == 7
MaxDecays == 3
NumBins == 2
MaxDetectors == 1

BeatDuration == 2
OffsetTime == 1

Offsets == {-2, 0, 1}
Bins == 0 .. (NumBins - 1)
ByteAmplitudes == {0, 255}
Silence == [b \in Bins |-> 0]
Loud == [b \in Bins |-> 255]

Max(a, b) == IF a >= b THEN a ELSE b

(***************************************************************************)
(* The engine record and its installation as the next state.               *)
(***************************************************************************)
Eng ==
    [startTime |-> startTime, pauseTime |-> pauseTime, isPlaying |-> isPlaying,
     req |-> req, pending |-> pending, sections |-> sections, kicks |-> kicks,
     beats |-> beats, frequencyDataArray |-> frequencyDataArray, log |-> log,
     exc |-> FALSE, depth |-> 0, nesting |-> 0, reread |-> analyserData]

Install(e) ==
    /\ startTime' = e.startTime
    /\ pauseTime' = e.pauseTime
    /\ isPlaying' = e.isPlaying
    /\ req' = e.req
    /\ pending' = e.pending
    /\ sections' = e.sections
    /\ kicks' = e.kicks
    /\ beats' = e.beats
    /\ frequencyDataArray' = e.frequencyDataArray
    /\ log' = e.log
    /\ nesting' = e.nesting

(***************************************************************************)
(* The playback clock.                                                     *)
(***************************************************************************)
Time(e, t) ==
    IF e.isPlaying THEN t - e.startTime ELSE e.pauseTime - e.startTime

\* cancelAnimationFrame(this.req) behind `if (this.req)`.
CancelAnimationFrame(e) ==
    IF e.req # 0 THEN [e EXCEPT !.pending = @ \ {e.req}] ELSE e

\* this.req = requestAnimationFrame(this._onUpdate): the host hands out a
\* handle it has never used; the model names it by the least number that is
\* neither held by the engine nor by the host.
RequestAnimationFrame(e) ==
    LET h == CHOOSE h \in 1 .. (Cardinality(e.pending) + 2) :
                 h \notin (e.pending \cup {e.req})
    IN  [e EXCEPT !.req = h, !.pending = @ \cup {h}]

\* Faulty variant: the pending frame request is left with the host.
PauseOpNoCancel(e, t) ==
    [e EXCEPT !.pauseTime = t, !.isPlaying = FALSE]

PauseOp(e, t) ==
    LET c == CancelAnimationFrame(e)
    IN  [c EXCEPT !.pauseTime = t, !.isPlaying = FALSE]

(***************************************************************************)
(* The section scheduler.                                                  *)
(***************************************************************************)
before(secs, time, act) ==
    Append(secs, [kind |-> "before", time |-> time, endTime |-> time,
                  act |-> act, called |-> FALSE])

after(secs, time, act) ==
    Append(secs, [kind |-> "after", time |-> time, endTime |-> time,
                  act |-> act, called |-> FALSE])

between(secs, startT, endT, act) ==
    Append(secs, [kind |-> "between", time |-> startT, endTime |-> endT,
                  act |-> act, called |-> FALSE])

onceAt(secs, time, act) ==
    Append(secs, [kind |-> "onceAt", time |-> time, endTime |-> time,
                  act |-> act, called |-> FALSE])

\* analyserNode.getByteFrequencyData(this.frequencyDataArray): the one array
\* the engine owns is overwritten in place with what the analyser measures.
GetSpectrum(e, data) == [e EXCEPT !.frequencyDataArray = data]

Event(cb, i, arg) == [cb |-> cb, i |-> i, arg |-> arg]

\* A user-supplied callback: recorded, then run.  `act` names what the
\* callback does:
\*   "log"          nothing that touches the engine
\*   "pause"        sound.pause()
\*   "register"     sound.after(0, ...), a section whose predicate holds as
\*                  soon as the elapsed time is positive
\*   "throw"        raises an exception
\*   "playOnce"     a section callback that calls sound.play() the first
\*                  time it runs and nothing afterwards (a latch of its own)
\*   "getSpectrum"  sound.getSpectrum(), also reached through getFrequency()
\* An exception propagates (`exc`) until the handler is left: no statement
\* of the engine catches it.
\* play() runs a frame pass, a frame pass runs callbacks, and a callback may
\* call play(): the operators of that cycle are declared ahead.
RECURSIVE PlayOp(_, _, _, _)
RECURSIVE OnUpdate(_, _, _)
RECURSIVE SectionCallback(_, _, _)
RECURSIVE KickCalc(_, _, _, _)
RECURSIVE BeatCalc(_, _, _, _, _)
RECURSIVE UserCallback(_, _, _, _)
UserCallback(e, t, act, ev) ==
    LET l == [e EXCEPT !.log = Append(@, ev)]
    IN  CASE act = "pause"       -> PauseOp(l, t)
          [] act = "register"    -> [l EXCEPT !.sections = after(@, 0, "log")]
          [] act = "throw"       -> [l EXCEPT !.exc = TRUE]
          [] act = "playOnce"    ->
                 PlayOp([l EXCEPT !.sections[ev.i].act = "log"], t, 0, l.reread)
          [] act = "getSpectrum" -> GetSpectrum(l, l.reread)
          [] OTHER               -> l

\* Faulty variant: between() includes its two boundaries.
ConditionInclusive(e, t, s) ==
    CASE s.kind = "before"  -> Time(e, t) < s.time
      [] s.kind = "after"   -> Time(e, t) > s.time
      [] s.kind = "between" -> Time(e, t) >= s.time /\ Time(e, t) <= s.endTime
      [] s.kind = "onceAt"  -> Time(e, t) > s.time /\ ~s.called

Condition(e, t, s) ==
    CASE s.kind = "before"  -> Time(e, t) < s.time
      [] s.kind = "after"   -> Time(e, t) > s.time
      [] s.kind = "between" -> Time(e, t) > s.time /\ Time(e, t) < s.endTime
      [] s.kind = "onceAt"  -> Time(e, t) > s.time /\ ~s.called

\* this._sections[i].callback.call(this); onceAt wraps the user's callback
\* and sets `called` after it has returned.
\* Faulty variant: onceAt never marks the section as called.
SectionCallbackUnmarked(e, t, i) ==
    UserCallback(e, t, e.sections[i].act, Event("section", i, 0))

SectionCallback(e, t, i) ==
    LET u == UserCallback(e, t, e.sections[i].act, Event("section", i, 0))
    IN  IF e.sections[i].kind = "onceAt" /\ ~u.exc
        THEN [u EXCEPT !.sections[i].called = TRUE]
        ELSE u

RECURSIVE RunSections(_, _, _, _)
RunSections(e, t, i, n) ==
    IF i > n \/ e.exc THEN e
    ELSE RunSections(IF Condition(e, t, e.sections[i])
                     THEN SectionCallback(e, t, i) ELSE e, t, i + 1, n)

(***************************************************************************)
(* The Kick onset detector.  `frequency` is <<f>> for a single bin and     *)
(* <<a, b>> for a range.                                                   *)
(***************************************************************************)
Kick(frequency, threshold, decay, onKick, offKick) ==
    [frequency |-> frequency, threshold |-> threshold, decay |-> decay,
     onKick |-> onKick, offKick |-> offKick, isOn |-> FALSE, isKick |-> FALSE,
     currentThreshold |-> threshold]

kickOn(k) == [k EXCEPT !.isOn = TRUE]

kickOff(k) == [k EXCEPT !.isOn = FALSE]

RECURSIVE MaxOver(_, _, _, _)
MaxOver(fft, i, l, max) ==
    IF i > l THEN max
    ELSE MaxOver(fft, i + 1, l,
                 IF i \in DOMAIN fft /\ fft[i] > max THEN fft[i] ELSE max)

\* A single bin outside the array yields null, which compares as 0.
maxAmplitude(fft, frequency) ==
    IF Len(frequency) = 1
    THEN IF frequency[1] \in DOMAIN fft THEN fft[frequency[1]] ELSE 0
    ELSE MaxOver(fft, frequency[1], frequency[2], 0)

\* Faulty variant: a magnitude equal to the adaptive threshold is no kick.
KickCalcStrict(e, t, i, spectrum) ==
    LET k == e.kicks[i]
        magnitude == maxAmplitude(spectrum, k.frequency)
    IN  IF ~k.isOn THEN e
        ELSE IF magnitude > k.currentThreshold /\ magnitude >= k.threshold
        THEN LET a == [e EXCEPT !.kicks[i].currentThreshold = magnitude]
                 u == IF k.onKick # "none"
                      THEN UserCallback(a, t, k.onKick, Event("onKick", i, magnitude))
                      ELSE a
             IN  IF u.exc THEN u ELSE [u EXCEPT !.kicks[i].isKick = TRUE]
        ELSE LET u == IF k.offKick # "none"
                      THEN UserCallback(e, t, k.offKick, Event("offKick", i, magnitude))
                      ELSE e
             IN  IF u.exc THEN u
                 ELSE [u EXCEPT !.kicks[i].currentThreshold = @ - k.decay,
                                !.kicks[i].isKick = FALSE]

\* Faulty variant: the adaptive threshold stays at the last peak.
KickCalcNoDecay(e, t, i, spectrum) ==
    LET k == e.kicks[i]
        magnitude == maxAmplitude(spectrum, k.frequency)
    IN  IF ~k.isOn THEN e
        ELSE IF magnitude >= k.currentThreshold /\ magnitude >= k.threshold
        THEN LET a == [e EXCEPT !.kicks[i].currentThreshold = magnitude]
                 u == IF k.onKick # "none"
                      THEN UserCallback(a, t, k.onKick, Event("onKick", i, magnitude))
                      ELSE a
             IN  IF u.exc THEN u ELSE [u EXCEPT !.kicks[i].isKick = TRUE]
        ELSE LET u == IF k.offKick # "none"
                      THEN UserCallback(e, t, k.offKick, Event("offKick", i, magnitude))
                      ELSE e
             IN  IF u.exc THEN u ELSE [u EXCEPT !.kicks[i].isKick = FALSE]

\* Faulty variant: a disabled Kick stays silent but its threshold still
\* follows the signal.
KickCalcUngated(e, t, i, spectrum) ==
    LET k == e.kicks[i]
        magnitude == maxAmplitude(spectrum, k.frequency)
    IN  IF magnitude >= k.currentThreshold /\ magnitude >= k.threshold
        THEN LET a == [e EXCEPT !.kicks[i].currentThreshold = magnitude]
                 u == IF k.isOn /\ k.onKick # "none"
                      THEN UserCallback(a, t, k.onKick, Event("onKick", i, magnitude))
                      ELSE a
             IN  IF u.exc THEN u ELSE [u EXCEPT !.kicks[i].isKick = TRUE]
        ELSE LET u == IF k.isOn /\ k.offKick # "none"
                      THEN UserCallback(e, t, k.offKick, Event("offKick", i, magnitude))
                      ELSE e
             IN  IF u.exc THEN u
                 ELSE [u EXCEPT !.kicks[i].currentThreshold = @ - k.decay,
                                !.kicks[i].isKick = FALSE]

KickCalc(e, t, i, spectrum) ==
    LET k == e.kicks[i]
        magnitude == maxAmplitude(spectrum, k.frequency)
    IN  IF ~k.isOn THEN e
        ELSE IF magnitude >= k.currentThreshold /\ magnitude >= k.threshold
        THEN LET a == [e EXCEPT !.kicks[i].currentThreshold = magnitude]
                 u == IF k.onKick # "none"
                      THEN UserCallback(a, t, k.onKick, Event("onKick", i, magnitude))
                      ELSE a
             IN  IF u.exc THEN u ELSE [u EXCEPT !.kicks[i].isKick = TRUE]
        ELSE LET u == IF k.offKick # "none"
                      THEN UserCallback(e, t, k.offKick, Event("offKick", i, magnitude))
                      ELSE e
             IN  IF u.exc THEN u
                 ELSE [u EXCEPT !.kicks[i].currentThreshold = @ - k.decay,
                                !.kicks[i].isKick = FALSE]

RECURSIVE RunKicks(_, _, _, _)
RunKicks(e, t, i, n) ==
    IF i > n \/ e.exc THEN e
    ELSE RunKicks(KickCalc(e, t, i, e.frequencyDataArray), t, i + 1, n)

(***************************************************************************)
(* The Beat metronome.                                                     *)
(***************************************************************************)
Beat(factor, onBeat) ==
    [factor |-> factor, onBeat |-> onBeat, isOn |-> FALSE, currentTime |-> 0]

beatOn(b) == [b EXCEPT !.isOn = TRUE]

beatOff(b) == [b EXCEPT !.isOn = FALSE]

\* Faulty variant: a catch-up loop fires every interval that has elapsed.
RECURSIVE BeatCatchUp(_, _, _, _, _)
BeatCatchUp(e, t, i, time, step) ==
    IF step > 0 /\ time >= e.beats[i].currentTime + step
    THEN BeatCatchUp(
             [(IF e.beats[i].isOn /\ e.beats[i].onBeat # "none"
               THEN UserCallback(e, t, e.beats[i].onBeat, Event("onBeat", i, time))
               ELSE e) EXCEPT !.beats[i].currentTime = @ + step],
             t, i, time, step)
    ELSE e

BeatCalcCatchUp(e, t, i, time, beatDuration) ==
    IF time = 0 THEN e
    ELSE BeatCatchUp(e, t, i, time, beatDuration * e.beats[i].factor)

\* Faulty variant: a disabled Beat does not advance.
BeatCalcGated(e, t, i, time, beatDuration) ==
    LET b == e.beats[i]
        beatDurationFactored == beatDuration * b.factor
    IN  IF time = 0 \/ ~b.isOn THEN e
        ELSE IF time >= b.currentTime + beatDurationFactored
        THEN LET u == IF b.onBeat # "none"
                      THEN UserCallback(e, t, b.onBeat, Event("onBeat", i, time))
                      ELSE e
             IN  IF u.exc THEN u
                 ELSE [u EXCEPT !.beats[i].currentTime = @ + beatDurationFactored]
        ELSE e

\* Faulty variant: the accumulator is re-anchored at the frame's own time.
BeatCalcDrift(e, t, i, time, beatDuration) ==
    LET b == e.beats[i]
        beatDurationFactored == beatDuration * b.factor
    IN  IF time = 0 THEN e
        ELSE IF time >= b.currentTime + beatDurationFactored
        THEN LET u == IF b.isOn /\ b.onBeat # "none"
                      THEN UserCallback(e, t, b.onBeat, Event("onBeat", i, time))
                      ELSE e
             IN  IF u.exc THEN u
                 ELSE [u EXCEPT !.beats[i].currentTime = time]
        ELSE e

BeatCalc(e, t, i, time, beatDuration) ==
    LET b == e.beats[i]
        beatDurationFactored == beatDuration * b.factor
    IN  IF time = 0 THEN e
        ELSE IF time >= b.currentTime + beatDurationFactored
        THEN LET u == IF b.isOn /\ b.onBeat # "none"
                      THEN UserCallback(e, t, b.onBeat, Event("onBeat", i, time))
                      ELSE e
             IN  IF u.exc THEN u
                 ELSE [u EXCEPT !.beats[i].currentTime = @ + beatDurationFactored]
        ELSE e

RECURSIVE RunBeats(_, _, _, _, _)
RunBeats(e, t, i, n, time) ==
    IF i > n \/ e.exc THEN e
    ELSE RunBeats(BeatCalc(e, t, i, time, BeatDuration), t, i + 1, n, time)

(***************************************************************************)
(* The frame pass and the two public clock operations.                     *)
(***************************************************************************)
PlaybackTime(e, t) == Max(0, Time(e, t) - OffsetTime)

\* Faulty variant: the section loop also visits the sections that were
\* registered while it runs.
RECURSIVE RunSectionsLive(_, _, _)
RunSectionsLive(e, t, i) ==
    IF i > Len(e.sections) \/ e.exc THEN e
    ELSE RunSectionsLive(IF Condition(e, t, e.sections[i])
                         THEN SectionCallback(e, t, i) ELSE e, t, i + 1)

OnUpdateLive(e, t, data) ==
    LET r == [RequestAnimationFrame(e) EXCEPT
                  !.log = IF e.depth = 0 THEN <<>> ELSE @,
                  !.depth = @ + 1,
                  !.nesting = Max(@, e.depth + 1)]
        s == RunSectionsLive(r, t, 1)
        g == GetSpectrum(s, data)
        k == RunKicks(g, t, 1, Len(g.kicks))
        b == RunBeats(k, t, 1, Len(k.beats), PlaybackTime(k, t))
    IN  [(IF s.exc THEN s ELSE b) EXCEPT !.depth = @ - 1]

\* `for (let i in this._sections)` enumerates the indices the array has when
\* the loop starts: an index added by a callback is not visited.
\* `log` starts afresh with the outermost activation; `depth` counts the
\* activations of onUpdate that have begun and not yet returned.
OnUpdate(e, t, data) ==
    LET r == [RequestAnimationFrame(e) EXCEPT
                  !.log = IF e.depth = 0 THEN <<>> ELSE @,
                  !.depth = @ + 1,
                  !.nesting = Max(@, e.depth + 1)]
        s == RunSections(r, t, 1, Len(r.sections))
        g == GetSpectrum(s, data)
        k == RunKicks(g, t, 1, Len(g.kicks))
        b == RunBeats(k, t, 1, Len(k.beats), PlaybackTime(k, t))
    IN  [(IF s.exc THEN s ELSE b) EXCEPT !.depth = @ - 1]

\* Faulty variant: the position captured by pause() is forgotten.
PlayOpRestart(e, t, offset, data) ==
    LET u == OnUpdate(CancelAnimationFrame(e), t, data)
    IN  IF u.exc THEN u
        ELSE [u EXCEPT !.isPlaying = TRUE, !.startTime = t - offset]

\* Faulty variant: play() arms a frame request without cancelling the one
\* it holds.
PlayOpNoCancel(e, t, offset, data) ==
    LET u == OnUpdate(e, t, data)
        elapseTime == u.pauseTime - u.startTime + offset
    IN  IF u.exc THEN u
        ELSE [u EXCEPT !.isPlaying = TRUE, !.startTime = t - elapseTime]

PlayOp(e, t, offset, data) ==
    LET u == OnUpdate(CancelAnimationFrame(e), t, data)
        elapseTime == u.pauseTime - u.startTime + offset
    IN  IF u.exc THEN u
        ELSE [u EXCEPT !.isPlaying = TRUE, !.startTime = t - elapseTime]

\* The exploration stops where a quantity the code lets grow without limit
\* leaves the bounds.
InBounds(e, t) ==
    /\ Time(e, t) \in (0 - MaxElapsed) .. MaxElapsed
    /\ \A i \in 1 .. Len(e.kicks) :
          e.kicks[i].currentThreshold >=
              e.kicks[i].threshold - MaxDecays * e.kicks[i].decay
    /\ \A i \in 1 .. Len(e.beats) : e.beats[i].currentTime >= 0 - MaxElapsed

(***************************************************************************)
(* Actions.                                                                *)
(***************************************************************************)
Play(offset) ==
    /\ InBounds(PlayOp(Eng, now, offset, analyserData), now)
    /\ Install(PlayOp(Eng, now, offset, analyserData))
    /\ UNCHANGED <<now, analyserData, isLoaded, returned>>

Pause ==
    /\ Install([PauseOp(Eng, now) EXCEPT !.log = <<>>])
    /\ UNCHANGED <<now, analyserData, isLoaded, returned>>

\* The host runs the frame callback of a request it holds.
Frame ==
    /\ \E h \in pending :
          \E e \in {OnUpdate([Eng EXCEPT !.pending = @ \ {h}], now, analyserData)} :
              InBounds(e, now) /\ Install(e)
    /\ UNCHANGED <<now, analyserData, isLoaded, returned>>

Advance(d) ==
    /\ now + d <= MaxNow
    /\ (isPlaying => now + d - startTime <= MaxElapsed)
    /\ now' = now + d
    /\ UNCHANGED <<startTime, pauseTime, isPlaying, req, pending, sections,
                   kicks, beats, analyserData, frequencyDataArray, isLoaded, log,
                   nesting, returned>>

(***************************************************************************)
(* Spec: the clock and the section scheduler.                              *)
(***************************************************************************)
SectionSetups ==
    { between(after(before(<<>>, 2, "log"), 2, "log"), 1, 3, "log"),
      after(onceAt(<<>>, 1, "log"), 2, "pause"),
      before(onceAt(<<>>, 2, "pause"), 1, "log") }

InitEngine ==
    /\ now = 0
    /\ startTime = 0
    /\ pauseTime = 0
    /\ isPlaying = FALSE
    /\ req = 0
    /\ pending = {}
    /\ analyserData = Silence
    /\ frequencyDataArray = Silence
    /\ log = <<>>
    /\ nesting = 0
    /\ returned = <<>>

Init ==
    /\ InitEngine
    /\ isLoaded = TRUE
    /\ sections \in SectionSetups
    /\ kicks = <<>>
    /\ beats = <<>>

Next ==
    \/ \E offset \in Offsets : Play(offset)
    \/ Pause
    \/ Frame
    \/ \E d \in 1 .. MaxStep : Advance(d)

Spec == Init /\ [][Next]_vars

(***************************************************************************)
(* Vocabulary of the properties.                                           *)
(***************************************************************************)
Elapsed == Time(Eng, now)

PassStep == Frame \/ \E offset \in Offsets : Play(offset)

EventAct(ev) ==
    CASE ev.cb = "section" -> sections[ev.i].act
      [] ev.cb = "onKick"  -> kicks[ev.i].onKick
      [] ev.cb = "offKick" -> kicks[ev.i].offKick
      [] ev.cb = "onBeat"  -> beats[ev.i].onBeat

PausedInPass(l) == \E j \in 1 .. Len(l) : EventAct(l[j]) = "pause"

Fired(l, cb, i) == \E j \in 1 .. Len(l) : l[j].cb = cb /\ l[j].i = i

Count(l, cb, i) == Cardinality({j \in 1 .. Len(l) : l[j].cb = cb /\ l[j].i = i})

(***************************************************************************)
(* C1.  Time spent paused does not count: play(0) issued while paused      *)
(* leaves elapsed() where pause() froze it, pause() issued while playing   *)
(* freezes elapsed() at its current value, and the wall clock moves        *)
(* elapsed() by exactly its own advance while playing and not at all       *)
(* while paused.  Hence over alternating play(0) / pause() elapsed() is    *)
(* the wall-clock time spent playing (2 after play; +2; pause; +5; play).  *)
(***************************************************************************)
C1_PausedTimeNotCounted ==
    [][ /\ (Play(0) /\ ~isPlaying /\ ~PausedInPass(log')) => Elapsed' = Elapsed
        /\ (Pause /\ isPlaying) => Elapsed' = Elapsed
        /\ \A d \in 1 .. MaxStep :
              Advance(d) => Elapsed' = IF isPlaying THEN Elapsed + d ELSE Elapsed
      ]_vars

\* play(0) at 0; +2; pause(); +5; play(0): playing again at wall clock 7, elapsed 2.
C1_Witness ==
    /\ isPlaying /\ now = 7 /\ pauseTime = 2 /\ startTime = 5 /\ Elapsed = 2

(***************************************************************************)
(* C2.  While the engine is not playing elapsed() is constant: neither an  *)
(* advance of the wall clock nor a further pause() changes it, and such a  *)
(* pause() changes nothing else either.                                    *)
(***************************************************************************)
C2_PausedElapsedConstant ==
    [][ (~isPlaying /\ (Pause \/ \E d \in 1 .. MaxStep : Advance(d)))
            => /\ Elapsed' = Elapsed
               /\ isPlaying' = isPlaying
               /\ pending' = pending
      ]_vars

(***************************************************************************)
(* C8.  play(offset) issued while playing seeks relative to the current    *)
(* position: elapsed() after the call is elapsed() before it plus offset.  *)
(***************************************************************************)
C8_SeekWhilePlaying ==
    [][ \A offset \in Offsets :
            (isPlaying /\ Play(offset) /\ ~PausedInPass(log'))
                => Elapsed' = Elapsed + offset
      ]_vars

(***************************************************************************)
(* C3.  A section registered with onceAt(label, t, cb) runs its callback   *)
(* exactly once over the engine's lifetime: a frame pass that reaches it   *)
(* with elapsed > t and the callback not yet run invokes it, once, and     *)
(* marks it called; a called section never runs again and never loses the  *)
(* mark, whatever pauses, resumes and seeks move elapsed back and forth    *)
(* across t afterwards.                                                    *)
(***************************************************************************)
NoPauseBefore(i) == \A j \in 1 .. (i - 1) : sections[j].act # "pause"

C3_OnceAtFiresExactlyOnce ==
    [][ \A i \in 1 .. Len(sections) :
            sections[i].kind = "onceAt" =>
                /\ sections[i].called => sections'[i].called
                /\ PassStep =>
                      /\ Count(log', "section", i) <= 1
                      /\ Fired(log', "section", i)
                            <=> (~sections[i].called /\ sections'[i].called)
                      /\ ( /\ ~sections[i].called
                           /\ Elapsed > sections[i].time
                           /\ (isPlaying \/ NoPauseBefore(i)) )
                            => Fired(log', "section", i)
      ]_vars

\* The callback has run and elapsed has since been moved back to t or below.
C3_Witness ==
    \E i \in 1 .. Len(sections) :
        /\ sections[i].kind = "onceAt"
        /\ sections[i].called
        /\ isPlaying
        /\ req \in pending
        /\ Elapsed <= sections[i].time

(***************************************************************************)
(* C7.  A frame pass visits the sections in registration order and runs    *)
(* the callback of a section once if its predicate holds for the current   *)
(* elapsed time and not at all otherwise; the predicates are strict:       *)
(* before(t) is elapsed < t, after(t) is elapsed > t, between(t0, t1) is   *)
(* t0 < elapsed < t1, so between fires neither at t0 nor at t1.            *)
(***************************************************************************)
Holds(s, elapsed) ==
    \/ s.kind = "before" /\ elapsed < s.time
    \/ s.kind = "after" /\ s.time < elapsed
    \/ s.kind = "between" /\ s.time < elapsed /\ elapsed < s.endTime
    \/ s.kind = "onceAt" /\ s.time < elapsed /\ ~s.called

RECURSIVE Expected(_, _, _)
Expected(secs, elapsed, i) ==
    IF i > Len(secs) THEN <<>>
    ELSE (IF Holds(secs[i], elapsed) THEN <<Event("section", i, 0)>> ELSE <<>>)
             \o Expected(secs, elapsed, i + 1)

C7_SectionsInOrderStrict ==
    [][ (PassStep /\ (isPlaying \/ NoPauseBefore(Len(sections) + 1)))
            => log' = Expected(sections, Elapsed, 1)
      ]_vars

\* A pass at elapsed = 3, the upper boundary of between(1, 3): of
\* before(2), after(2), between(1, 3) only after(2) has fired.
C7_Witness ==
    /\ Len(sections) = 3
    /\ sections[3].kind = "between"
    /\ isPlaying
    /\ Elapsed = sections[3].endTime
    /\ req \in pending
    /\ log = <<Event("section", 2, 0)>>

(***************************************************************************)
(* SpecPass: one section, one Kick and one Beat, all switched on by the    *)
(* application's setup, of which at most one callback calls pause().       *)
(***************************************************************************)
PassActs ==
    { <<"pause", "log", "log", "log">>, <<"log", "pause", "log", "log">>,
      <<"log", "log", "pause", "log">>, <<"log", "log", "log", "pause">>,
      <<"log", "log", "log", "log">> }

InitPass ==
    /\ now = 0
    /\ startTime = 0
    /\ pauseTime = 0
    /\ isPlaying = FALSE
    /\ req = 0
    /\ pending = {}
    /\ analyserData \in {Silence, Loud}
    /\ frequencyDataArray = Silence
    /\ isLoaded = TRUE
    /\ log = <<>>
    /\ nesting = 0
    /\ returned = <<>>
    /\ \E a \in PassActs :
          /\ sections = after(<<>>, 1, a[1])
          /\ kicks = <<kickOn(Kick(<<0, 1>>, 230, 5, a[2], a[3]))>>
          /\ beats = <<beatOn(Beat(1, a[4]))>>

NextPass ==
    \/ Play(0)
    \/ Pause
    \/ Frame
    \/ \E d \in 1 .. MaxStep : Advance(d)

SpecPass == InitPass /\ [][NextPass]_vars

(***************************************************************************)
(* C6.  After pause() has returned no frame pass begins until the next     *)
(* play(): whenever the engine is not playing the host holds no frame      *)
(* request, neither one queued before the call nor the one re-armed by a   *)
(* pass in the middle of which a callback called pause().                  *)
(***************************************************************************)
C6_NoFrameAfterPause == ~isPlaying => pending = {}

\* A frame pass in which a callback called pause() has just ended.
C6_Witness ==
    /\ ~isPlaying
    /\ req # 0
    /\ PausedInPass(log)
    /\ pending = {}

(***************************************************************************)
(* SpecKick: a Kick over a range or over a single bin, driven through its   *)
(* public handle: on(), off() and calc(spectrum) with arbitrary arrays.    *)
(***************************************************************************)
Amplitudes == {200, 230, 250, 300}

KickOn(i) ==
    /\ kicks' = [kicks EXCEPT ![i] = kickOn(@)]
    /\ UNCHANGED <<now, startTime, pauseTime, isPlaying, req, pending, sections,
                   beats, analyserData, frequencyDataArray, isLoaded, log,
                   nesting, returned>>

KickOff(i) ==
    /\ kicks' = [kicks EXCEPT ![i] = kickOff(@)]
    /\ UNCHANGED <<now, startTime, pauseTime, isPlaying, req, pending, sections,
                   beats, analyserData, frequencyDataArray, isLoaded, log,
                   nesting, returned>>

KickCalcCall(i, fft) ==
    /\ InBounds(KickCalc([Eng EXCEPT !.log = <<>>], now, i, fft), now)
    /\ Install(KickCalc([Eng EXCEPT !.log = <<>>], now, i, fft))
    /\ UNCHANGED <<now, analyserData, isLoaded, returned>>

InitKick ==
    /\ InitEngine
    /\ isLoaded = TRUE
    /\ sections = <<>>
    /\ kicks \in { <<Kick(<<0, 1>>, 230, 5, "log", "log")>>,
                   <<Kick(<<1>>, 230, 5, "log", "log")>> }
    /\ beats = <<>>

NextKick ==
    \/ \E i \in 1 .. Len(kicks) : KickOn(i)
    \/ \E i \in 1 .. Len(kicks) : KickOff(i)
    \/ \E i \in 1 .. Len(kicks), fft \in [Bins -> Amplitudes] : KickCalcCall(i, fft)

SpecKick == InitKick /\ [][NextKick]_vars

(***************************************************************************)
(* C4.  For an enabled Kick a frame is a kick iff magnitude >=             *)
(* currentThreshold and magnitude >= threshold, equality included, where   *)
(* magnitude is snapshot[index] for a single index and the maximum of      *)
(* snapshot[a..b] for a range.  A kick frame sets currentThreshold to the  *)
(* magnitude, calls onKick(magnitude) and raises the kick flag; any other  *)
(* frame calls offKick(magnitude), lowers currentThreshold by decay with   *)
(* no floor, and clears the flag.  With threshold 230, decay 5 and the     *)
(* magnitudes 300, 300, 250, 200 the flags are true, true, false, false    *)
(* and currentThreshold is 300, 300, 295, 290.                             *)
(***************************************************************************)
Magnitude(fft, frequency) ==
    IF Len(frequency) = 1 THEN fft[frequency[1]]
    ELSE CHOOSE m \in {fft[j] : j \in frequency[1] .. frequency[2]} :
             \A j \in frequency[1] .. frequency[2] : fft[j] <= m

\* <<currentThreshold before, magnitude, kick flag, currentThreshold after>>
KickTrace ==
    { <<230, 300, TRUE, 300>>, <<300, 300, TRUE, 300>>,
      <<300, 250, FALSE, 295>>, <<295, 200, FALSE, 290>> }

C4_KickDecision ==
    [][ \A i \in 1 .. Len(kicks), fft \in [Bins -> Amplitudes] :
            (KickCalcCall(i, fft) /\ kicks[i].isOn) =>
                LET k == kicks[i]
                    m == Magnitude(fft, k.frequency)
                    kick == m >= k.currentThreshold /\ m >= k.threshold
                IN  /\ kicks'[i].isKick = kick
                    /\ kick => /\ kicks'[i].currentThreshold = m
                               /\ log' = <<Event("onKick", i, m)>>
                    /\ ~kick => /\ kicks'[i].currentThreshold = k.currentThreshold - k.decay
                                /\ log' = <<Event("offKick", i, m)>>
                    /\ \A row \in KickTrace :
                          (k.threshold = 230 /\ k.decay = 5
                              /\ k.currentThreshold = row[1] /\ m = row[2])
                            => /\ kicks'[i].isKick = row[3]
                               /\ kicks'[i].currentThreshold = row[4]
      ]_vars

\* The end of the trace 300, 300, 250, 200: the threshold raised to 300 has
\* decayed twice, the last frame (magnitude 200) was no kick.
C4_Witness ==
    \E i \in 1 .. Len(kicks) :
        /\ kicks[i].isOn
        /\ kicks[i].threshold = 230
        /\ kicks[i].currentThreshold = 290
        /\ ~kicks[i].isKick
        /\ log = <<Event("offKick", i, 200)>>

(***************************************************************************)
(* SpecBeat: two Beats, switched on and off at any moment, under play(0),  *)
(* pause(), frames and arbitrary advances of the wall clock.               *)
(***************************************************************************)
BeatOn(i) ==
    /\ beats' = [beats EXCEPT ![i] = beatOn(@)]
    /\ UNCHANGED <<now, startTime, pauseTime, isPlaying, req, pending, sections,
                   kicks, analyserData, frequencyDataArray, isLoaded, log,
                   nesting, returned>>

BeatOff(i) ==
    /\ beats' = [beats EXCEPT ![i] = beatOff(@)]
    /\ UNCHANGED <<now, startTime, pauseTime, isPlaying, req, pending, sections,
                   kicks, analyserData, frequencyDataArray, isLoaded, log,
                   nesting, returned>>

BeatSetups ==
    { <<Beat(1, "log"), Beat(1, "log")>>,
      <<Beat(1, "log"), Beat(2, "log")>>,
      <<Beat(2, "pause"), Beat(2, "log")>> }

InitBeat ==
    /\ InitEngine
    /\ isLoaded = TRUE
    /\ sections = <<>>
    /\ kicks = <<>>
    /\ beats \in BeatSetups

NextBeat ==
    \/ Play(0)
    \/ Pause
    \/ Frame
    \/ \E d \in 1 .. MaxStep : Advance(d)
    \/ \E i \in 1 .. Len(beats) : BeatOn(i)
    \/ \E i \in 1 .. Len(beats) : BeatOff(i)

SpecBeat == InitBeat /\ [][NextBeat]_vars

Interval(b) == BeatDuration * b.factor

(***************************************************************************)
(* C5.  In a frame pass every Beat moves nextFireTime (currentTime) by     *)
(* nothing or by exactly one interval = beatDuration * factor: by one      *)
(* interval iff playbackTime # 0 and playbackTime >= nextFireTime +        *)
(* interval, however many intervals have elapsed; it never calls onBeat    *)
(* more than once in a pass, and for factor > 0 nextFireTime never         *)
(* decreases.                                                              *)
(***************************************************************************)
Due(b, playbackTime) ==
    playbackTime # 0 /\ playbackTime >= b.currentTime + Interval(b)

C5_BeatSingleStep ==
    [][ /\ \A i \in 1 .. Len(beats) :
              /\ beats'[i].currentTime \in
                     {beats[i].currentTime, beats[i].currentTime + Interval(beats[i])}
              /\ beats[i].factor > 0 => beats'[i].currentTime >= beats[i].currentTime
        /\ PassStep =>
              \A i \in 1 .. Len(beats) :
                  /\ beats'[i].currentTime =
                        IF Due(beats[i], PlaybackTime(Eng, now))
                        THEN beats[i].currentTime + Interval(beats[i])
                        ELSE beats[i].currentTime
                  /\ Count(log', "onBeat", i) <= 1
                  /\ Fired(log', "onBeat", i)
                        <=> (Due(beats[i], PlaybackTime(Eng, now)) /\ beats[i].isOn)
      ]_vars

\* Two or more intervals had elapsed when the pass ran, and the Beat has
\* fired once and moved by one interval only.
C5_Witness ==
    \E i \in 1 .. Len(beats) :
        /\ beats[i].currentTime = Interval(beats[i])
        /\ \E j \in 1 .. Len(log) :
              /\ log[j].cb = "onBeat" /\ log[j].i = i
              /\ log[j].arg >= 2 * Interval(beats[i])

(***************************************************************************)
(* C10.  A disabled Beat never calls onBeat, yet its nextFireTime moves    *)
(* exactly like that of an enabled Beat with the same factor fed the same  *)
(* frames; so once on() has been called it fires exactly in the passes in  *)
(* which an always-enabled twin fires, with no burst for the intervals     *)
(* that elapsed while it was disabled.                                     *)
(***************************************************************************)
C10_DisabledBeatKeepsPace ==
    [][ /\ \A i, j \in 1 .. Len(beats) :
              beats[i].factor = beats[j].factor
                  => beats'[i].currentTime = beats'[j].currentTime
        /\ PassStep =>
              \A i, j \in 1 .. Len(beats) :
                  /\ Fired(log', "onBeat", i) => beats[i].isOn
                  /\ ( /\ beats[i].factor = beats[j].factor
                       /\ beats[i].isOn /\ beats[j].isOn )
                        => (Fired(log', "onBeat", i) <=> Fired(log', "onBeat", j))
      ]_vars

\* A pass in which the enabled Beat fired and its disabled twin advanced
\* with it, silently.
C10_Witness ==
    /\ Len(beats) = 2
    /\ beats[1].factor = beats[2].factor
    /\ beats[1].isOn /\ ~beats[2].isOn
    /\ Fired(log, "onBeat", 1) /\ ~Fired(log, "onBeat", 2)
    /\ beats[2].currentTime = beats[1].currentTime
    /\ beats[2].currentTime >= 2 * Interval(beats[2])

(***************************************************************************)
(* SpecSteady: a Beat switched on before playback starts, then play(0)     *)
(* and an uninterrupted run of frames, each moving playbackTime by at most *)
(* one interval of the Beat.                                               *)
(***************************************************************************)
\* The wall clock moves by d and the host runs the pending frame callback.
Tick(d) ==
    /\ now + d <= MaxNow
    /\ \E h \in pending :
          Install(OnUpdate([Eng EXCEPT !.pending = @ \ {h}], now + d, analyserData))
    /\ now' = now + d
    /\ UNCHANGED <<analyserData, isLoaded, returned>>

InitSteady ==
    /\ InitEngine
    /\ isLoaded = TRUE
    /\ sections = <<>>
    /\ kicks = <<>>
    /\ beats \in {<<Beat(1, "log")>>, <<Beat(2, "log")>>}

NextSteady ==
    \/ req = 0 /\ \E i \in 1 .. Len(beats) : BeatOn(i)
    \/ req = 0 /\ \E d \in 1 .. MaxStep : Advance(d)
    \/ req = 0 /\ Play(0)
    \/ \E d \in 0 .. MaxNow :
          /\ \A i \in 1 .. Len(beats) :
                PlaybackTime(Eng, now + d) - PlaybackTime(Eng, now)
                    <= Interval(beats[i])
          /\ Tick(d)

SpecSteady == InitSteady /\ [][NextSteady]_vars

(***************************************************************************)
(* C9.  For a Beat created and enabled before playback starts, during      *)
(* uninterrupted playback from position 0 with frames at most one          *)
(* interval apart, the k-th onBeat is called in the first frame whose      *)
(* playbackTime >= k * interval: a frame calls onBeat, once, iff a         *)
(* multiple of the interval lies in (previous playbackTime, playbackTime], *)
(* and after every frame the Beat has advanced floor(playbackTime /        *)
(* interval) times, so lateness stays below one frame and never adds up.   *)
(***************************************************************************)
C9_BeatOnSchedule ==
    [][ \A d \in 0 .. MaxNow :
            Tick(d) =>
                \A i \in 1 .. Len(beats) :
                    LET I == Interval(beats[i])
                        p0 == PlaybackTime(Eng, now)
                        p1 == PlaybackTime(Eng, now + d)
                    IN  /\ beats'[i].currentTime = (p1 \div I) * I
                        /\ beats[i].isOn =>
                              /\ Count(log', "onBeat", i) <= 1
                              /\ Fired(log', "onBeat", i) <=> (p1 \div I) > (p0 \div I)
                              /\ Fired(log', "onBeat", i) =>
                                    log' = <<Event("onBeat", i, p1)>>
      ]_vars

\* The second onBeat of a Beat of interval 2, called at playbackTime 5 by
\* the first frame at or after 4 (frames at playbackTime 1, 3, 5).
C9_Witness ==
    /\ isPlaying
    /\ beats[1].isOn
    /\ Interval(beats[1]) = 2
    /\ beats[1].currentTime = 4
    /\ PlaybackTime(Eng, now) = 5
    /\ log = <<Event("onBeat", 1, 5)>>

(***************************************************************************)
(* SpecRegister: section callbacks that register a further section.        *)
(***************************************************************************)
RegisterSetups ==
    { onceAt(<<>>, 1, "register"),
      onceAt(before(<<>>, 3, "log"), 2, "register"),
      after(onceAt(<<>>, 0, "register"), 2, "log") }

InitRegister ==
    /\ InitEngine
    /\ isLoaded = TRUE
    /\ sections \in RegisterSetups
    /\ kicks = <<>>
    /\ beats = <<>>

NextRegister ==
    \/ Play(0)
    \/ Pause
    \/ Frame
    \/ \E d \in 1 .. MaxStep : Advance(d)

SpecRegister == InitRegister /\ [][NextRegister]_vars

(***************************************************************************)
(* C11.  A section callback may register sections during a frame pass.  A  *)
(* section registered during a pass has no callback invoked in that pass,  *)
(* even if its predicate already holds; every section that was registered  *)
(* before the pass began, the ones added by earlier passes included, has   *)
(* its callback invoked exactly when its predicate holds.                  *)
(***************************************************************************)
C11_RegisteredSectionWaits ==
    [][ PassStep =>
            /\ \A j \in (Len(sections) + 1) .. Len(sections') :
                  ~Fired(log', "section", j)
            /\ \A j \in 1 .. Len(sections) :
                  Fired(log', "section", j) <=> Holds(sections[j], Elapsed)
      ]_vars

\* The pass in which the registering callback ran: the section it added is
\* the last one, its predicate holds, and it has not been called.
C11_Witness ==
    \E i \in 1 .. (Len(sections) - 1) :
        /\ sections[i].act = "register"
        /\ Fired(log, "section", i)
        /\ Holds(sections[Len(sections)], Elapsed)
        /\ ~Fired(log, "section", Len(sections))

(***************************************************************************)
(* SpecThrow: one callback of the pass raises an exception.                *)
(***************************************************************************)
ThrowActs ==
    { <<"throw", "log", "log", "log">>, <<"log", "throw", "log", "log">>,
      <<"log", "log", "throw", "log">>, <<"log", "log", "log", "throw">> }

InitThrow ==
    /\ InitEngine
    /\ isLoaded = TRUE
    /\ \E a \in ThrowActs :
          /\ sections = after(after(<<>>, 0, a[1]), 0, "log")
          /\ kicks = <<kickOn(Kick(<<0, 1>>, 230, 5, a[2], a[3]))>>
          /\ beats = <<beatOn(Beat(1, a[4]))>>

\* The analyser measures another signal.
Render(data) ==
    /\ data # analyserData
    /\ analyserData' = data
    /\ UNCHANGED <<now, startTime, pauseTime, isPlaying, req, pending, sections,
                   kicks, beats, frequencyDataArray, isLoaded, log, nesting, returned>>

NextThrow ==
    \/ Play(0)
    \/ Pause
    \/ Frame
    \/ \E d \in 1 .. MaxStep : Advance(d)
    \/ \E data \in {Silence, Loud} : Render(data)

SpecThrow == InitThrow /\ [][NextThrow]_vars

(***************************************************************************)
(* C12.  An exception thrown by a section, onKick, offKick or onBeat       *)
(* callback is isolated: the remainder of the frame pass still runs        *)
(* (every section whose predicate holds has its callback invoked, every    *)
(* enabled Kick is evaluated and reports, every Beat that is due moves by  *)
(* its interval) and the next frame pass is requested.                     *)
(***************************************************************************)
C12_CallbackExceptionIsolated ==
    [][ PassStep =>
            /\ \A j \in 1 .. Len(sections) :
                  Holds(sections[j], Elapsed) => Fired(log', "section", j)
            /\ \A i \in 1 .. Len(kicks) :
                  kicks[i].isOn
                      => (Fired(log', "onKick", i) \/ Fired(log', "offKick", i))
            /\ \A i \in 1 .. Len(beats) :
                  Due(beats[i], PlaybackTime(Eng, now))
                      => beats'[i].currentTime
                             = beats[i].currentTime + Interval(beats[i])
            /\ pending' # {}
      ]_vars

(***************************************************************************)
(* SpecSession: the life of one asset, from the construction of the engine *)
(* through the end of the decoding to the end of the audio.                *)
(***************************************************************************)
\* The success callback of decodeAudioData: _isLoaded = true, then the
\* constructor's callback if there is one; "play" is the callback
\* () => sound.play().
Loaded(callback) ==
    /\ ~isLoaded
    /\ isLoaded' = TRUE
    /\ IF callback = "play"
       THEN Install(PlayOp(Eng, now, 0, analyserData))
       ELSE UNCHANGED <<startTime, pauseTime, isPlaying, req, pending, sections,
                        kicks, beats, frequencyDataArray, log, nesting>>
    /\ UNCHANGED <<now, analyserData, returned>>

\* onEnded() is `this.stop()`, and Sound has no method stop: the call raises
\* a TypeError and nothing else happens.
OnEndedOp(e) == [e EXCEPT !.exc = TRUE]

\* The source node started by play() reaches the end of its buffer; it
\* carries the 'ended' listener from play() until pause() removes it.
Ended ==
    /\ isPlaying
    /\ Install([OnEndedOp(Eng) EXCEPT !.log = <<>>])
    /\ UNCHANGED <<now, analyserData, isLoaded, returned>>

InitSession ==
    /\ InitEngine
    /\ isLoaded = FALSE
    /\ sections = <<>>
    /\ kicks = <<>>
    /\ beats = <<>>

NextSession ==
    \/ \E callback \in {"none", "play"} : Loaded(callback)
    \/ \E offset \in Offsets : Play(offset)
    \/ Pause
    \/ Frame
    \/ \E d \in 1 .. MaxStep : Advance(d)
    \/ Ended

SpecSession == InitSession /\ [][NextSession]_vars

(***************************************************************************)
(* C13.  play() invoked before the load has completed is a no-op:          *)
(* isPlaying stays false, the elapsed time and the clock's anchors are     *)
(* unchanged, no frame pass runs and no frame request is scheduled.        *)
(***************************************************************************)
C13_PlayBeforeLoadIsNoOp ==
    [][ ((\E offset \in Offsets : Play(offset)) /\ ~isLoaded) =>
            /\ ~isPlaying'
            /\ UNCHANGED <<startTime, pauseTime, req, pending>>
            /\ nesting' = 0
      ]_vars

(***************************************************************************)
(* SpecConfig: detectors created while the engine runs, with valid and     *)
(* with invalid parameters.                                                *)
(***************************************************************************)
createKick(ks, frequency, threshold, decay, onKick, offKick) ==
    Append(ks, Kick(frequency, threshold, decay, onKick, offKick))

createBeat(bs, factor, onBeat) == Append(bs, Beat(factor, onBeat))

CreateKick(frequency) ==
    /\ Len(kicks) < MaxDetectors
    /\ kicks' = createKick(kicks, frequency, 230, 5, "log", "log")
    /\ UNCHANGED <<now, startTime, pauseTime, isPlaying, req, pending, sections,
                   beats, analyserData, frequencyDataArray, isLoaded, log,
                   nesting, returned>>

CreateBeat(factor) ==
    /\ Len(beats) < MaxDetectors
    /\ beats' = createBeat(beats, factor, "log")
    /\ UNCHANGED <<now, startTime, pauseTime, isPlaying, req, pending, sections,
                   kicks, analyserData, frequencyDataArray, isLoaded, log,
                   nesting, returned>>

Ranges == {<<0, 1>>, <<1, 0>>}

Factors == {-1, 0, 1}

InitConfig ==
    /\ InitEngine
    /\ isLoaded = TRUE
    /\ sections = <<>>
    /\ kicks = <<>>
    /\ beats = <<>>

NextConfig ==
    \/ \E frequency \in Ranges : CreateKick(frequency)
    \/ \E factor \in Factors : CreateBeat(factor)
    \/ \E i \in 1 .. Len(kicks) : KickOn(i)
    \/ \E i \in 1 .. Len(beats) : BeatOn(i)
    \/ Play(0)
    \/ Frame
    \/ \E d \in 1 .. MaxStep : Advance(d)

SpecConfig == InitConfig /\ [][NextConfig]_vars

(***************************************************************************)
(* C14.  createKick with a range whose start exceeds its end and           *)
(* createBeat with a factor <= 0 add no detector, and a detector with      *)
(* such parameters is never evaluated: a Beat with factor <= 0 never       *)
(* calls onBeat.                                                           *)
(***************************************************************************)
C14_InvalidConfigurationRejected ==
    [][ /\ \A frequency \in Ranges :
              (CreateKick(frequency) /\ frequency[1] > frequency[2])
                  => UNCHANGED kicks
        /\ \A factor \in Factors :
              (CreateBeat(factor) /\ factor <= 0) => UNCHANGED beats
        /\ PassStep =>
              \A i \in 1 .. Len(beats) :
                  beats[i].factor <= 0 => ~Fired(log', "onBeat", i)
      ]_vars

(***************************************************************************)
(* SpecReenter: a section callback that calls play().                      *)
(***************************************************************************)
ReenterSetups ==
    { after(after(<<>>, 0, "playOnce"), 0, "log"),
      after(onceAt(<<>>, 1, "playOnce"), 2, "log"),
      between(before(<<>>, 2, "log"), 1, 3, "playOnce") }

InitReenter ==
    /\ InitEngine
    /\ isLoaded = TRUE
    /\ sections \in ReenterSetups
    /\ kicks = <<>>
    /\ beats = <<>>

NextReenter ==
    \/ Play(0)
    \/ Pause
    \/ Frame
    \/ \E d \in 1 .. MaxStep : Advance(d)

SpecReenter == InitReenter /\ [][NextReenter]_vars

(***************************************************************************)
(* C15.  No two frame passes overlap: a pass runs to completion before     *)
(* another one begins, also when a user callback calls play() or pause()   *)
(* during the pass.  At no moment has more than one activation of the      *)
(* frame pass begun and not yet returned.                                  *)
(***************************************************************************)
C15_NoOverlappingPasses == nesting <= 1

(***************************************************************************)
(* C16.  Once pause() has been invoked nothing runs until the next         *)
(* play(): while the engine is paused no step but play() changes a         *)
(* section, a Kick or a Beat or invokes a callback, and when a callback    *)
(* calls pause() part-way through a frame pass the steps that follow in    *)
(* that pass do not run, so the pausing callback is the last one the pass  *)
(* invokes.                                                                *)
(***************************************************************************)
C16_NothingRunsAfterPause ==
    [][ /\ (~isPlaying /\ ~\E offset \in Offsets : Play(offset))
              => (UNCHANGED <<sections, kicks, beats>> /\ log' \in {log, <<>>})
        /\ PassStep =>
              \A j \in 1 .. Len(log') :
                  EventAct(log'[j]) = "pause" => j = Len(log')
      ]_vars

(***************************************************************************)
(* SpecKickPair: two Kicks, enabled and disabled at will, evaluated by the *)
(* frame passes on what the analyser measures.                             *)
(***************************************************************************)
Low == [b \in Bins |-> IF b = 0 THEN 255 ELSE 0]

Spectra == {Silence, Loud, Low}

InitKickPair ==
    /\ InitEngine
    /\ isLoaded = TRUE
    /\ sections = <<>>
    /\ kicks = <<Kick(<<0, 1>>, 250, 5, "log", "log"),
                 Kick(<<1>>, 250, 5, "log", "log")>>
    /\ beats = <<>>

NextKickPair ==
    \/ \E i \in 1 .. Len(kicks) : KickOn(i)
    \/ \E i \in 1 .. Len(kicks) : KickOff(i)
    \/ Play(0)
    \/ Frame
    \/ \E data \in Spectra : Render(data)

SpecKickPair == InitKickPair /\ [][NextKickPair]_vars

(***************************************************************************)
(* C17.  A frame pass leaves a disabled Kick entirely unchanged and calls  *)
(* neither its onKick nor its offKick; an enabled Kick is moved by its own *)
(* state and the snapshot alone, whatever the other Kicks are and do.      *)
(* on() and off() change the enabled flag of their Kick and nothing else:  *)
(* not its currentThreshold, and no other Kick.                            *)
(***************************************************************************)
C17_DisabledKickUntouched ==
    [][ /\ PassStep =>
              \A i \in 1 .. Len(kicks) :
                  LET k == kicks[i]
                      m == Magnitude(analyserData, k.frequency)
                      kick == m >= k.currentThreshold /\ m >= k.threshold
                  IN  IF k.isOn
                      THEN kicks'[i] =
                               [k EXCEPT !.isKick = kick,
                                         !.currentThreshold =
                                             IF kick THEN m ELSE @ - k.decay]
                      ELSE /\ kicks'[i] = k
                           /\ ~Fired(log', "onKick", i)
                           /\ ~Fired(log', "offKick", i)
        /\ \A i \in 1 .. Len(kicks) :
              (KickOn(i) \/ KickOff(i)) =>
                  /\ kicks'[i] = [kicks[i] EXCEPT !.isOn = KickOn(i)]
                  /\ \A j \in 1 .. Len(kicks) : j # i => kicks'[j] = kicks[j]
      ]_vars

\* A pass on a loud signal in which one Kick fired while the other,
\* disabled, kept the threshold it had decayed to; it would have fired too.
C17_Witness ==
    \E i, j \in 1 .. Len(kicks) :
        /\ frequencyDataArray = Loud
        /\ kicks[j].isOn /\ Fired(log, "onKick", j)
        /\ ~kicks[i].isOn
        /\ kicks[i].currentThreshold < kicks[i].threshold
        /\ ~kicks[i].isKick

(***************************************************************************)
(* SpecSnapshot: Kick callbacks that read the spectrum themselves, while   *)
(* the audio thread goes on rendering.                                     *)
(***************************************************************************)
\* A frame pass during which the audio thread renders: what the analyser
\* delivers to a read made by a callback (`reread`) is no longer what it
\* delivered to the read at the start of the Kick step.
FrameWhileRendering(data) ==
    /\ data # analyserData
    /\ \E h \in pending :
          LET e == OnUpdate([Eng EXCEPT !.pending = @ \ {h}, !.reread = data],
                            now, analyserData)
          IN  InBounds(e, now) /\ Install(e)
    /\ analyserData' = data
    /\ UNCHANGED <<now, isLoaded, returned>>

SnapshotActs ==
    { <<"getSpectrum", "getSpectrum">>, <<"getSpectrum", "log">>,
      <<"log", "getSpectrum">> }

InitSnapshot ==
    /\ InitEngine
    /\ isLoaded = TRUE
    /\ sections = <<>>
    /\ \E a \in SnapshotActs :
          kicks = <<kickOn(Kick(<<0, 1>>, 250, 5, a[1], a[2])),
                    kickOn(Kick(<<0, 1>>, 250, 5, "log", "log"))>>
    /\ beats = <<>>

NextSnapshot ==
    \/ Play(0)
    \/ Frame
    \/ \E data \in Spectra : FrameWhileRendering(data)
    \/ \E data \in Spectra : Render(data)

SpecSnapshot == InitSnapshot /\ [][NextSnapshot]_vars

(***************************************************************************)
(* C18.  Within one frame pass the snapshot is refreshed once, before any  *)
(* Kick is evaluated, and every Kick reads the same contents, also when an *)
(* onKick or offKick callback calls getSpectrum() or getFrequency(): the   *)
(* magnitude every Kick of the pass reports is the one of the snapshot     *)
(* taken at the start of the Kick step.                                    *)
(***************************************************************************)
C18_OneSnapshotPerPass ==
    [][ (PassStep \/ \E data \in Spectra : FrameWhileRendering(data)) =>
            \A j \in 1 .. Len(log') :
                log'[j].cb \in {"onKick", "offKick"}
                    => log'[j].arg
                           = Magnitude(analyserData, kicks[log'[j].i].frequency)
      ]_vars

(***************************************************************************)
(* C19.  At every moment the host holds at most one frame request of the   *)
(* engine, the one whose handle the engine keeps, and none while the       *)
(* engine is not playing: play() called twice in a row leaves one frame    *)
(* loop, not two, and pause() leaves none, also when it is a callback of   *)
(* the pass that calls pause().                                            *)
(***************************************************************************)
C19_SingleFrameLoop ==
    /\ Cardinality(pending) <= 1
    /\ pending \subseteq {req}
    /\ ~isPlaying => pending = {}

\* play(1) twice in a row at wall clock 0: one frame request is held.
C19_Witness ==
    /\ isPlaying /\ now = 0 /\ pauseTime = 0 /\ startTime = 0 - 2
    /\ pending = {req}

(***************************************************************************)
(* C20.  When the source node raises 'ended' during playback the handler   *)
(* stops the playback: once it has run the engine is not playing, the      *)
(* host holds no frame request, so that no further frame pass runs, and    *)
(* the elapsed time stands where it was.                                   *)
(***************************************************************************)
C20_EndedStopsPlayback ==
    [][ Ended => (~isPlaying' /\ pending' = {} /\ Elapsed' = Elapsed) ]_vars

(***************************************************************************)
(* SpecDecay: one Kick fed by the frame loop with a signal that is silent, *)
(* steady above the static threshold, or at full scale.  The host runs the *)
(* frame callback of every request it holds: weak fairness of Frame.       *)
(***************************************************************************)
Steady == [b \in Bins |-> 210]

Signals == {Silence, Steady, Loud}

InitDecay ==
    /\ InitEngine
    /\ isLoaded = TRUE
    /\ sections = <<>>
    /\ kicks = <<kickOn(Kick(<<0, 1>>, 200, 20, "log", "log"))>>
    /\ beats = <<>>

NextDecay ==
    \/ \E i \in 1 .. Len(kicks) : KickOn(i)
    \/ \E i \in 1 .. Len(kicks) : KickOff(i)
    \/ Play(0)
    \/ Frame
    \/ \E data \in Signals : Render(data)

SpecDecay == InitDecay /\ [][NextDecay]_vars /\ WF_vars(Frame)

\* The number of non-kick frames a Kick whose ceiling stands at
\* currentThreshold needs before a constant magnitude reaches it:
\* ceil((currentThreshold - magnitude) / decay), 0 once it is reached.
FramesToKick(currentThreshold, magnitude, decay) ==
    IF currentThreshold <= magnitude THEN 0
    ELSE (currentThreshold - magnitude + decay - 1) \div decay

(***************************************************************************)
(* C21.  An enabled Kick with decay > 0 that keeps receiving frames whose  *)
(* magnitude m stays >= threshold eventually kicks.  In every such frame   *)
(* the Kick fires iff its ceiling has decayed to m or below, and otherwise *)
(* the number of frames still needed, ceil((currentThreshold - m)/decay),  *)
(* drops by exactly one: after a kick at peak P (ceiling = P) the next     *)
(* kick comes after ceil((P - m) / decay) non-kick frames, not earlier.    *)
(***************************************************************************)
C21_KickRecursAfterDecay ==
    /\ [][ PassStep =>
               \A i \in 1 .. Len(kicks) :
                   LET k == kicks[i]
                       m == Magnitude(analyserData, k.frequency)
                   IN  (k.isOn /\ k.decay > 0 /\ m >= k.threshold) =>
                           IF FramesToKick(k.currentThreshold, m, k.decay) = 0
                           THEN /\ kicks'[i].isKick
                                /\ kicks'[i].currentThreshold = m
                           ELSE /\ ~kicks'[i].isKick
                                /\ FramesToKick(kicks'[i].currentThreshold, m, k.decay)
                                       = FramesToKick(k.currentThreshold, m, k.decay) - 1
         ]_vars
    /\ (<>[](/\ isPlaying /\ kicks[1].isOn /\ kicks[1].decay > 0
              /\ Magnitude(analyserData, kicks[1].frequency) >= kicks[1].threshold))
           => []<>kicks[1].isKick

\* Peak 255, then the steady magnitude 210: the ceiling has decayed three
\* times (255, 235, 215, 195) without a kick and the next frame is the kick,
\* ceil((255 - 210) / 20) = 3 non-kick frames after the peak.
C21_Witness ==
    /\ kicks[1].isOn /\ ~kicks[1].isKick /\ kicks[1].currentThreshold = 195
    /\ analyserData = Steady
    /\ log = <<Event("offKick", 1, 210)>>
    /\ isPlaying

(***************************************************************************)
(* SpecFrequency: getFrequency() called on what the analyser measures.     *)
(* A script value is a record: undefined, null or a number.                *)
(***************************************************************************)
Undefined == [type |-> "undefined", n |-> 0]

Null == [type |-> "null", n |-> 0]

Number(n) == [type |-> "number", n |-> n]

\* The numeric value a comparison or a subtraction gives a value: null is 0.
ToNumber(v) == IF v.type = "number" THEN v.n ELSE 0

\* for (var i = freq; i <= endFreq; i++) sum += spectrum[i]
RECURSIVE SumOver(_, _, _, _)
SumOver(spectrum, i, l, sum) ==
    IF i > l THEN sum ELSE SumOver(spectrum, i + 1, l, sum + spectrum[i])

\* The parameter endFreq takes its default, null, when the argument is
\* omitted or undefined; the result is the quotient <<sum, n>>.
getFrequency(spectrum, freq, argument) ==
    LET endFreq == IF argument.type = "undefined" THEN Null ELSE argument
    IN  IF endFreq.type # "undefined"
        THEN <<SumOver(spectrum, freq, ToNumber(endFreq), 0),
               ToNumber(endFreq) - freq + 1>>
        ELSE <<spectrum[freq], 1>>

GetFrequency(freq, argument) ==
    /\ frequencyDataArray' = GetSpectrum(Eng, analyserData).frequencyDataArray
    /\ returned' = getFrequency(frequencyDataArray', freq, argument)
    /\ UNCHANGED <<now, startTime, pauseTime, isPlaying, req, pending, sections,
                   kicks, beats, analyserData, isLoaded, log, nesting>>

Tones == [Bins -> {0, 100, 255}]

InitFrequency ==
    /\ InitEngine
    /\ isLoaded = TRUE
    /\ sections = <<>>
    /\ kicks = <<>>
    /\ beats = <<>>

NextFrequency ==
    \/ \E data \in Tones : Render(data)
    \/ \E freq \in Bins, argument \in {Undefined} \cup {Number(b) : b \in Bins} :
          GetFrequency(freq, argument)

SpecFrequency == InitFrequency /\ [][NextFrequency]_vars

\* The quotient q = <<sum, n>> is the number v; 0 / 0 is no number.
IsNumber(q, v) == q[2] # 0 /\ q[1] = v * q[2]

(***************************************************************************)
(* C22.  getFrequency(f) called with a bin index and no end index returns  *)
(* the current amplitude of bin f, spectrum[f], for every bin index f of   *)
(* the spectrum.                                                           *)
(***************************************************************************)
C22_SingleBinAmplitude ==
    [][ \A f \in Bins :
            GetFrequency(f, Undefined) => IsNumber(returned', analyserData[f])
      ]_vars

====
